---- MODULE Spec2Model ----
(***************************************************************************)
(* Model of doc_crawler.py (src/index.py): the command line entry point    *)
(* run_cmd, the crawl driver doc_crawler and the link classifier           *)
(* explore_page.                                                           *)
(*                                                                         *)
(* A URL is a sequence of tokens: an origin ("https://www.bbc.com"), path  *)
(* segments ("/sport") and, last, an optional suffix (".pdf").  A link as  *)
(* found in a page body is such a sequence too; one that does not start    *)
(* with an origin is a relative link.  `base_url in a_href` is the         *)
(* contiguous-subsequence test on tokens.  A compiled pattern anchored at  *)
(* the end of the string is the set of suffix tokens it matches.           *)
(*                                                                         *)
(* The statements of the functions are modelled as written.  explore_page  *)
(* is read as the statements of lines 158-173, and `sleep` in              *)
(* controlled_sleep as time.sleep (line 5 imports another name).           *)
(***************************************************************************)
EXTENDS Integers, Sequences, FiniteSets, TLC

VARIABLES
    pc,                 \* position of the program
    argv,               \* the command line given to run_cmd (<<>> for a direct call)
    base_url, wanted_ext, do_dl, do_journal, do_wait, do_random_wait, single_page,
    found_pages_list, found_pages_set, regurgited_pages, caught_docs,
    it,                 \* position of the iterator of `for page_url in found_pages_list`
    page_url,           \* the loop variable
    page,               \* the response of requests.get, NoPage when none is open
    slept,              \* seconds slept by controlled_sleep in this iteration
    fetched,            \* history: the URLs given to requests.get, in order
    printed,            \* history: the URLs written by print(a_href), in order
    downloaded,         \* history: the URLs retrieved by download_file, in order
    err,                \* the exception that left the program, "" when none
    url_lines,          \* download_files: the lines of the URL list, <<>> a blank one
    line_it,            \* position of the iterator of `for line in f`
    line_nb, downloaded_files,
    attempted,          \* history: the download_file calls of the batch, in order
    tally               \* the numbers of the final 'downloaded X / Y', <<>> before it

vars == <<pc, argv, base_url, wanted_ext, do_dl, do_journal, do_wait, do_random_wait,
          single_page, found_pages_list, found_pages_set, regurgited_pages, caught_docs,
          it, page_url, page, slept, fetched, printed, downloaded, err,
          url_lines, line_it, line_nb, downloaded_files, attempted, tally>>

params == <<base_url, wanted_ext, do_dl, do_journal, do_wait, do_random_wait, single_page>>
sets == <<found_pages_list, found_pages_set, regurgited_pages, caught_docs>>
outputs == <<printed, downloaded>>
batch == <<url_lines, line_it, line_nb, downloaded_files, attempted, tally>>

----------------------------------------------------------------------------
(* Bounds and inputs *)

\* the largest number of links in one page body
MaxLinks == 2

BBC == "https://www.bbc.com"
ELSEWHERE == "https://other.org"
EXAMPLE == "https://example.com"

Origins == {BBC, "http://www.bbc.com", ELSEWHERE, EXAMPLE}

\* the targets a crawl is started on
Seeds == { <<BBC>>, <<BBC, "/sport">> }

\* the largest number of lines in a URL list
MaxLines == 3

\* the links page bodies are made of
RawLinks ==
    { <<"/live">>,                       \* relative link to a page
      <<BBC, "/sport", "/r", ".pdf">>,   \* document of the site
      <<"/sport", "/i", ".jpg">>,        \* relative link to an image
      <<BBC, "/sport", "/s", ".js">>,    \* script of the site
      <<ELSEWHERE, "/x", ".pdf">> }      \* document of another site

RECURSIVE SeqsUpTo(_, _)
SeqsUpTo(S, n) ==
    IF n = 0 THEN { <<>> }
    ELSE LET shorter == SeqsUpTo(S, n - 1)
         IN  shorter \cup { Append(s, x) : s \in shorter, x \in S }

Bodies == SeqsUpTo(RawLinks, MaxLinks)

\* the URL lists download_files is given: lines of two URLs and blank lines
UrlFiles ==
    SeqsUpTo({ <<BBC, "/sport", "/r", ".pdf">>, <<ELSEWHERE, "/x", ".pdf">>, <<>> },
             MaxLines)

\* explore_page called on its own: the site and the page it is given, ...
ExploreTargets ==
    { [base |-> <<>>, url |-> <<>>],
      [base |-> <<EXAMPLE>>, url |-> <<EXAMPLE, "/x", "/y">>],
      [base |-> <<BBC>>, url |-> <<BBC, "/sport">>] }

\* ... and the links of the bodies it is given
ExploreLinks ==
    { <<"/a", "/b">>,                    \* link relative to the site's root
      <<".", "/c">>,                     \* link relative to the page: "c"
      <<BBC, "/sport", "/r", ".pdf">>,
      <<EXAMPLE, "/x", "/i", ".jpg">>,
      <<ELSEWHERE, "/x", ".pdf">> }

ExploreBodies == SeqsUpTo(ExploreLinks, MaxLinks)

Range(s) == { s[i] : i \in 1..Len(s) }

BoolInt(b) == IF b THEN 1 ELSE 0

----------------------------------------------------------------------------
(* Module constants *)

\* the suffixes WANTED_EXT matches, among them every one used below
WANTED_EXT ==
    { ".pdf", ".doc", ".docx", ".xls", ".xlsx", ".ppt", ".pptx", ".odt", ".ods", ".odp",
      ".csv", ".rtf", ".zip", ".rar", ".gz", ".tgz", ".xz" }

\* the dotted suffixes BIN_EXT matches (its wildcards mpe?. h26. m.v by example)
BIN_EXT ==
    { ".jpg", ".jpeg", ".png", ".gif", ".ico", ".swf", ".flv", ".exe", ".mpg", ".mpeg",
      ".h264", ".avi", ".mkv", ".zip", ".rar", ".gz", ".tgz", ".xz", ".js" }

\* the pattern of the usage example --accept=jpe?g$
ACCEPT_JPEG == { ".jpg", ".jpeg" }

RE_REL_LINK == { "https://www.bbc.com", "http://www.bbc.com" }

RE_CONTENT_TYPE == { "text/html", "text/css" }

CODES_OK == 200

NoPage == [status |-> 0, ctype |-> "", body |-> <<>>]

\* what requests.get can answer: a page of links, or a response without a body of interest
Responses ==
    { [status |-> CODES_OK, ctype |-> "text/html", body |-> b] : b \in Bodies }
    \cup { [status |-> CODES_OK, ctype |-> "text/css", body |-> <<>>],
           [status |-> CODES_OK, ctype |-> "image/png", body |-> <<>>],
           [status |-> 404, ctype |-> "text/html", body |-> <<>>] }

----------------------------------------------------------------------------
(* explore_page: the link classifier *)

Last(s) == s[Len(s)]

Front(s) == SubSeq(s, 1, Len(s) - 1)

\* `b in a` of two strings: b occurs in a as a run of consecutive tokens
Contains(b, a) ==
    \E i \in 0..(Len(a) - Len(b)) : SubSeq(a, i + 1, i + Len(b)) = b

\* RE_REL_LINK.search(a_href): the link starts with the recognized site
RelLinkSearch(a_href) == a_href # <<>> /\ a_href[1] \in RE_REL_LINK

\* urljoin(page_url, a_href)
UrlJoin(url, a_href) ==
    IF a_href = <<>> THEN url
    ELSE IF a_href[1] \in Origins THEN a_href
    ELSE IF url = <<>> \/ url[1] \notin Origins THEN a_href
    ELSE IF a_href[1] = "." THEN
             (IF Len(url) > 1 THEN Front(url) ELSE url) \o Tail(a_href)
    ELSE <<url[1]>> \o a_href

ResolveNothing(url, a_href) == a_href

\* the link as classified: made absolute unless it is at the recognized site
Resolve(url, a_href) ==
    IF ~RelLinkSearch(a_href) THEN UrlJoin(url, a_href) ELSE a_href

\* pattern.search(a_href) of a pattern anchored at the end of the string
SuffixSearch(pattern, a_href) == a_href # <<>> /\ Last(a_href) \in pattern

BinExtSearchNoScripts(a_href) == SuffixSearch(BIN_EXT \ {".js"}, a_href)

BinExtSearch(a_href) == SuffixSearch(BIN_EXT, a_href)

IsWantedDocAgain(pattern, a_href, caught) == SuffixSearch(pattern, a_href)

\* wanted doc ?
IsWantedDoc(pattern, a_href, caught) ==
    SuffixSearch(pattern, a_href) /\ a_href \notin caught

\* next page ?
IsNextPageAnywhere(base, a_href) == ~BinExtSearch(a_href)

IsNextPage(base, a_href) == Contains(base, a_href) /\ ~BinExtSearch(a_href)

IsNewPageAlways(a_href, seen) == TRUE

IsNewPage(a_href, seen) == a_href \notin seen

\* the classifier's state while it runs over a page: the four collections, what it
\* has written and retrieved, and whether download_file raised
CollectionsFresh(lst, seen, regurgited, caught, out, dl) ==
    [found_pages_list |-> lst, found_pages_set |-> seen,
     regurgited_pages |-> {}, caught_docs |-> caught,
     printed |-> out, downloaded |-> dl, raised |-> FALSE]

Collections(lst, seen, regurgited, caught, out, dl) ==
    [found_pages_list |-> lst, found_pages_set |-> seen,
     regurgited_pages |-> regurgited, caught_docs |-> caught,
     printed |-> out, downloaded |-> dl, raised |-> FALSE]

\* do_dl and download_file(a_href) or print(a_href): download_file returns None, so
\* print runs after a download too; a download in `failing` raises
Emit(st, a_href, dl, failing) ==
    IF dl
    THEN IF a_href \in failing
         THEN [st EXCEPT !.raised = TRUE]
         ELSE [st EXCEPT !.downloaded = Append(@, a_href),
                         !.printed = Append(@, a_href)]
    ELSE [st EXCEPT !.printed = Append(@, a_href)]

ExploreLinkUnseen(st, base, url, link, pattern, dl, failing) ==
    LET a_href == Resolve(url, link) IN
    IF IsWantedDoc(pattern, a_href, st.caught_docs)
    THEN Emit([st EXCEPT !.caught_docs = @ \cup {a_href}], a_href, dl, failing)
    ELSE IF IsNextPage(base, a_href)
    THEN IF IsNewPage(a_href, st.found_pages_set)
         THEN [st EXCEPT !.found_pages_list = Append(@, a_href)]
         ELSE st
    ELSE IF a_href \notin st.regurgited_pages
    THEN [st EXCEPT !.regurgited_pages = @ \cup {a_href}]
    ELSE st

ExploreLinkNoiseFirst(st, base, url, link, pattern, dl, failing) ==
    LET a_href == Resolve(url, link) IN
    IF a_href \in st.regurgited_pages
    THEN st
    ELSE IF IsWantedDoc(pattern, a_href, st.caught_docs)
    THEN Emit([st EXCEPT !.caught_docs = @ \cup {a_href}], a_href, dl, failing)
    ELSE IF IsNextPage(base, a_href)
    THEN IF IsNewPage(a_href, st.found_pages_set)
         THEN [st EXCEPT !.found_pages_list = Append(@, a_href),
                         !.found_pages_set = @ \cup {a_href}]
         ELSE st
    ELSE [st EXCEPT !.regurgited_pages = @ \cup {a_href}]

\* the body of the loop over the links of a page
ExploreLink(st, base, url, link, pattern, dl, failing) ==
    LET a_href == Resolve(url, link) IN
    IF IsWantedDoc(pattern, a_href, st.caught_docs)
    THEN Emit([st EXCEPT !.caught_docs = @ \cup {a_href}], a_href, dl, failing)
    ELSE IF IsNextPage(base, a_href)
    THEN IF IsNewPage(a_href, st.found_pages_set)
         THEN [st EXCEPT !.found_pages_list = Append(@, a_href),
                         !.found_pages_set = @ \cup {a_href}]
         ELSE st
    ELSE IF a_href \notin st.regurgited_pages
    THEN [st EXCEPT !.regurgited_pages = @ \cup {a_href}]
    ELSE st

RECURSIVE ExplorePage(_, _, _, _, _, _, _)
ExplorePage(st, base, url, page_str, pattern, dl, failing) ==
    IF page_str = <<>> \/ st.raised THEN st
    ELSE ExplorePage(ExploreLink(st, base, url, Head(page_str), pattern, dl, failing),
                     base, url, Tail(page_str), pattern, dl, failing)

----------------------------------------------------------------------------
(* run_cmd: the command line *)

\* an argument: `opt` is its text up to the "=", `val` the text after it; the target
\* has opt "http" (what arg.startswith('http') looks at) and its URL in `url`
Opt(o) == [opt |-> o, val |-> "", url |-> <<>>]
OptVal(o, v) == [opt |-> o, val |-> v, url |-> <<>>]
Target(u) == [opt |-> "http", val |-> "", url |-> u]

PROG == Opt("doc_crawler.py")

\* int(arg[len('--wait='):])
IntOf(v) == CASE v = "0" -> 0 [] v = "1" -> 1 [] v = "2" -> 2 [] v = "3" -> 3

\* re.compile(regext, re.I)
Compile(regext) ==
    CASE regext = "WANTED_EXT" -> WANTED_EXT
      [] regext = "jpe?g$" -> ACCEPT_JPEG

\* the option lists the command line is given
OptionLists ==
    { <<>>,
      <<Opt("--single-page")>>,
      <<Opt("--download")>>,
      <<Opt("--verbose")>>,
      <<Opt("--download"), Opt("--single-page")>>,
      <<OptVal("--wait", "0"), Opt("--single-page")>>,
      <<OptVal("--wait", "2"), Opt("--no-random-wait")>>,
      <<OptVal("--accept", "jpe?g$")>>,
      <<Opt("--help")>>,
      <<Opt("--recursive")>>,
      <<OptVal("--wait", "0"), Opt("--download-file")>> }

\* the command lines of the batch mode: the last argument names the URL list
BatchArgvs ==
    { <<PROG, Opt("--download-files"), Opt("url.lst")>>,
      <<PROG, OptVal("--wait", "2"), Opt("--no-random-wait"), Opt("--download-files"),
        Opt("url.lst")>> }

Argvs ==
    { <<PROG>> } \cup BatchArgvs
    \cup { <<PROG>> \o o \o <<Target(u)>> : o \in OptionLists, u \in Seeds }

Locals ==
    [regext |-> "WANTED_EXT", do_dl |-> FALSE, do_journal |-> FALSE, do_wait |-> 5,
     do_random_wait |-> TRUE, single_page |-> FALSE, exit |-> ""]

\* the body of the loop over argv; i is the index of arg, from 0
ParseArg(o, i, arg, n) ==
    IF i = 0 THEN o
    ELSE IF arg.opt = "--accept" THEN [o EXCEPT !.regext = arg.val]
    ELSE IF arg.opt = "--download" THEN [o EXCEPT !.do_dl = TRUE]
    ELSE IF arg.opt = "--single-page" THEN [o EXCEPT !.single_page = TRUE]
    ELSE IF arg.opt = "--verbose" THEN [o EXCEPT !.do_journal = TRUE]
    ELSE IF arg.opt = "--wait" THEN [o EXCEPT !.do_wait = IntOf(arg.val)]
    ELSE IF arg.opt = "--no-random-wait" THEN [o EXCEPT !.do_random_wait = FALSE]
    ELSE IF arg.opt = "http" THEN o
    ELSE IF arg.opt = "--download-file"
    THEN [o EXCEPT !.exit = IF n < 3 THEN "usage" ELSE "download_file"]
    ELSE IF arg.opt = "--download-files"
    THEN [o EXCEPT !.exit = IF n < 3 THEN "usage" ELSE "download_files"]
    ELSE IF arg.opt = "--help" THEN [o EXCEPT !.exit = "usage"]
    ELSE IF arg.opt = "--test" THEN [o EXCEPT !.exit = "doctest"]
    ELSE [o EXCEPT !.exit = "usage"]

RECURSIVE ParseArgs(_, _, _)
ParseArgs(o, a, i) ==
    IF i >= Len(a) \/ o.exit # "" THEN o
    ELSE ParseArgs(ParseArg(o, i, a[i + 1], Len(a)), a, i + 1)

----------------------------------------------------------------------------
(* The program *)

Init ==
    /\ pc = "start"
    /\ argv = <<>>
    /\ base_url = <<>>
    /\ wanted_ext = {}
    /\ do_dl = FALSE
    /\ do_journal = FALSE
    /\ do_wait = 0
    /\ do_random_wait = FALSE
    /\ single_page = FALSE
    /\ found_pages_list = <<>>
    /\ found_pages_set = {}
    /\ regurgited_pages = {}
    /\ caught_docs = {}
    /\ it = 0
    /\ page_url = <<>>
    /\ page = NoPage
    /\ slept = 0
    /\ fetched = <<>>
    /\ printed = <<>>
    /\ downloaded = <<>>
    /\ err = ""
    /\ url_lines = <<>>
    /\ line_it = 0
    /\ line_nb = 0
    /\ downloaded_files = 0
    /\ attempted = <<>>
    /\ tally = <<>>

\* doc_crawler is entered: its parameters, and the four collections
Enter(url, pattern, dl, journal, wait, random_wait, single) ==
    /\ base_url' = url
    /\ wanted_ext' = pattern
    /\ do_dl' = dl
    /\ do_journal' = journal
    /\ do_wait' = wait
    /\ do_random_wait' = random_wait
    /\ single_page' = single
    /\ found_pages_list' = <<url>>
    /\ found_pages_set' = {url}
    /\ regurgited_pages' = {}
    /\ caught_docs' = {}
    /\ pc' = "for"

\* the call that ends run_cmd
CallDocCrawler(a, o) ==
    Enter(Last(a).url, Compile(o.regext), o.do_dl, o.do_journal,
          BoolInt(o.single_page), FALSE, FALSE)

\* the seconds controlled_sleep sleeps
SleepTimes(seconds, random_wait) ==
    IF random_wait THEN 1..seconds ELSE {seconds}

\* do_wait and controlled_sleep(do_wait, do_random_wait), in download_file
DownloadSleepTimes(wait, random_wait) ==
    IF wait # 0 THEN SleepTimes(wait, random_wait) ELSE {0}

\* download_files is entered: its parameters and its two counters (line 198 is read
\* as line_nb = 0)
EnterBatch(ls, wait, random_wait) ==
    /\ url_lines' = ls
    /\ line_it' = 0
    /\ line_nb' = 0
    /\ downloaded_files' = 0
    /\ attempted' = <<>>
    /\ tally' = <<>>
    /\ do_wait' = wait
    /\ do_random_wait' = random_wait
    /\ pc' = "lines"
    /\ UNCHANGED <<base_url, wanted_ext, do_dl, do_journal, single_page>>

\* run_cmd(argv)
RunCmd ==
    /\ pc = "start"
    /\ \E a \in Argvs :
        LET o == ParseArgs(Locals, a, 0) IN
        /\ argv' = a
        /\ IF o.exit = "download_file"
           THEN /\ \E d \in DownloadSleepTimes(o.do_wait, o.do_random_wait) :
                       slept' = d
                /\ \E ok \in BOOLEAN :
                       /\ downloaded' = IF ok THEN <<Last(a).url>> ELSE <<>>
                       /\ pc' = IF ok THEN "exit" ELSE "raised"
                       /\ err' = IF ok THEN "SystemExit" ELSE "download_file raised"
                /\ UNCHANGED <<params, sets, batch>>
           ELSE IF o.exit = "download_files"
           THEN /\ \E ls \in UrlFiles : EnterBatch(ls, o.do_wait, o.do_random_wait)
                /\ UNCHANGED <<sets, slept, downloaded, err>>
           ELSE IF o.exit # "" \/ Len(a) < 2
           THEN /\ pc' = "exit"
                /\ err' = "SystemExit"
                /\ UNCHANGED <<params, sets, batch, slept, downloaded>>
           ELSE /\ CallDocCrawler(a, o)
                /\ UNCHANGED <<batch, slept, downloaded, err>>
    /\ UNCHANGED <<it, page_url, page, fetched, printed>>

\* doc_crawler(base_url, wanted_ext, ...) called with a compiled pattern
DocCrawler ==
    /\ pc = "start"
    /\ \E url \in Seeds, pattern \in {WANTED_EXT, ACCEPT_JPEG},
          dl \in BOOLEAN, journal \in BOOLEAN, single \in BOOLEAN,
          wait \in {<<0, FALSE>>, <<2, TRUE>>} :
        Enter(url, pattern, dl, journal, wait[1], wait[2], single)
    /\ UNCHANGED <<batch, argv, it, page_url, page, slept, fetched, printed, downloaded, err>>

ForNextNewest ==
    /\ pc = "for"
    /\ it < Len(found_pages_list)
    /\ it' = it + 1
    /\ page_url' = found_pages_list[Len(found_pages_list)]
    /\ slept' = 0
    /\ pc' = IF do_wait # 0 THEN "sleep" ELSE "get"
    /\ UNCHANGED <<batch, argv, params, sets, page, fetched, outputs, err>>

ForNextNoSleep ==
    /\ pc = "for"
    /\ it < Len(found_pages_list)
    /\ it' = it + 1
    /\ page_url' = found_pages_list[it + 1]
    /\ slept' = 0
    /\ pc' = "get"
    /\ UNCHANGED <<batch, argv, params, sets, page, fetched, outputs, err>>

\* for page_url in found_pages_list: the next entry
ForNext ==
    /\ pc = "for"
    /\ it < Len(found_pages_list)
    /\ it' = it + 1
    /\ page_url' = found_pages_list[it + 1]
    /\ slept' = 0
    /\ pc' = IF do_wait # 0 THEN "sleep" ELSE "get"
    /\ UNCHANGED <<batch, argv, params, sets, page, fetched, outputs, err>>

\* the list is exhausted: the summary, and doc_crawler returns
ForEnd ==
    /\ pc = "for"
    /\ it = Len(found_pages_list)
    /\ pc' = "done"
    /\ UNCHANGED <<batch, argv, params, sets, it, page_url, page, slept, fetched, outputs, err>>

\* do_wait and controlled_sleep(do_wait, do_random_wait)
ControlledSleep ==
    /\ pc = "sleep"
    /\ \E d \in SleepTimes(do_wait, do_random_wait) : slept' = d
    /\ pc' = "get"
    /\ UNCHANGED <<batch, argv, params, sets, it, page_url, page, fetched, outputs, err>>

\* page = requests.get(page_url, stream=True) answers
Get ==
    /\ pc = "get"
    /\ \E r \in Responses : page' = r
    /\ fetched' = Append(fetched, page_url)
    /\ pc' = "gate"
    /\ UNCHANGED <<batch, argv, params, sets, it, page_url, slept, outputs, err>>

\* requests.get raises
GetRaises ==
    /\ pc = "get"
    /\ fetched' = Append(fetched, page_url)
    /\ pc' = "except"
    /\ UNCHANGED <<batch, argv, params, sets, it, page_url, page, slept, outputs, err>>

\* the except clause: stderr is sys.stderr, a file and not a function, so
\* stderr(e) raises TypeError and `continue` is not reached
Except ==
    /\ pc = "except"
    /\ pc' = "raised"
    /\ err' = "TypeError: stderr is not callable"
    /\ UNCHANGED <<batch, argv, params, sets, it, page_url, page, slept, fetched, outputs>>

IsTextPage(r) == r.status = CODES_OK /\ r.ctype \in RE_CONTENT_TYPE

\* the downloads that can fail while the page is classified: at most one need be
\* named, the first failure ends the classification
Failures(url, page_str) ==
    { {} } \cup { {Resolve(url, page_str[i])} : i \in 1..Len(page_str) }

\* status ok and text: explore_page on the body
Explore ==
    /\ pc = "gate"
    /\ IsTextPage(page)
    /\ \E failing \in (IF do_dl THEN Failures(page_url, page.body) ELSE { {} }) :
        LET st == ExplorePage(Collections(found_pages_list, found_pages_set,
                                          regurgited_pages, caught_docs,
                                          printed, downloaded),
                              base_url, page_url, page.body, wanted_ext, do_dl, failing)
        IN  /\ found_pages_list' = st.found_pages_list
            /\ found_pages_set' = st.found_pages_set
            /\ regurgited_pages' = st.regurgited_pages
            /\ caught_docs' = st.caught_docs
            /\ printed' = st.printed
            /\ downloaded' = st.downloaded
            /\ pc' = IF st.raised THEN "raised" ELSE "close"
            /\ err' = IF st.raised THEN "download_file raised" ELSE err
    /\ UNCHANGED <<batch, argv, params, it, page_url, page, slept, fetched>>

\* the else branch: with the journal on, "..." + page.status_code adds an int to a
\* str and raises TypeError
Skip ==
    /\ pc = "gate"
    /\ ~IsTextPage(page)
    /\ pc' = IF do_journal THEN "raised" ELSE "close"
    /\ err' = IF do_journal THEN "TypeError: str + int" ELSE err
    /\ UNCHANGED <<batch, argv, params, sets, it, page_url, page, slept, fetched, outputs>>

CloseAndGoOn ==
    /\ pc = "close"
    /\ page' = NoPage
    /\ pc' = "for"
    /\ UNCHANGED <<batch, argv, params, sets, it, page_url, slept, fetched, outputs, err>>

\* page.close(); if single_page: break
Close ==
    /\ pc = "close"
    /\ page' = NoPage
    /\ pc' = IF single_page THEN "done" ELSE "for"
    /\ UNCHANGED <<batch, argv, params, sets, it, page_url, slept, fetched, outputs, err>>

----------------------------------------------------------------------------
(* download_files: the batch mode *)

\* download_files(URLs_file, do_wait, do_random_wait) called directly
DownloadFiles ==
    /\ pc = "start"
    /\ \E ls \in UrlFiles, wait \in {<<0, FALSE>>, <<2, TRUE>>} :
        EnterBatch(ls, wait[1], wait[2])
    /\ UNCHANGED <<argv, sets, it, page_url, page, slept, fetched, outputs, err>>

\* for line in f: a blank line is passed over, another one is counted and announced
LineNext ==
    /\ pc = "lines"
    /\ line_it < Len(url_lines)
    /\ line_it' = line_it + 1
    /\ IF url_lines[line_it + 1] = <<>>
       THEN /\ pc' = "lines"
            /\ line_nb' = line_nb
       ELSE /\ pc' = "download"
            /\ line_nb' = line_nb + 1
    /\ UNCHANGED <<url_lines, downloaded_files, attempted, tally, argv, params, sets,
                   it, page_url, page, slept, fetched, outputs, err>>

\* download_file(line, do_wait, do_random_wait) returns; downloaded_files += 1
DownloadLine ==
    /\ pc = "download"
    /\ \E d \in DownloadSleepTimes(do_wait, do_random_wait) : slept' = d
    /\ attempted' = Append(attempted, [url |-> url_lines[line_it], ok |-> TRUE])
    /\ downloaded_files' = downloaded_files + 1
    /\ pc' = "lines"
    /\ UNCHANGED <<url_lines, line_it, line_nb, tally, argv, params, sets,
                   it, page_url, page, fetched, outputs, err>>

\* download_file raises
DownloadLineRaises ==
    /\ pc = "download"
    /\ \E d \in DownloadSleepTimes(do_wait, do_random_wait) : slept' = d
    /\ attempted' = Append(attempted, [url |-> url_lines[line_it], ok |-> FALSE])
    /\ pc' = "line_except"
    /\ UNCHANGED <<url_lines, line_it, line_nb, downloaded_files, tally, argv, params,
                   sets, it, page_url, page, fetched, outputs, err>>

\* the except clause of the batch: stderr(e) raises TypeError here too, and the
\* loop is left
LineExcept ==
    /\ pc = "line_except"
    /\ pc' = "raised"
    /\ err' = "TypeError: stderr is not callable"
    /\ UNCHANGED <<batch, argv, params, sets, it, page_url, page, slept, fetched, outputs>>

\* the list is read through: print 'downloaded X / Y'; run_cmd then raises SystemExit
LinesEnd ==
    /\ pc = "lines"
    /\ line_it = Len(url_lines)
    /\ tally' = <<downloaded_files, line_nb>>
    /\ pc' = IF argv # <<>> THEN "exit" ELSE "done"
    /\ err' = IF argv # <<>> THEN "SystemExit" ELSE err
    /\ UNCHANGED <<url_lines, line_it, line_nb, downloaded_files, attempted, argv, params,
                   sets, it, page_url, page, slept, fetched, outputs>>

----------------------------------------------------------------------------
(* explore_page called on its own, as its doctest does *)

ExploreInit ==
    /\ pc = "explore_page"
    /\ argv = <<>>
    /\ \E t \in ExploreTargets :
          /\ base_url = t.base
          /\ page_url = t.url
          /\ found_pages_list \in { <<>>, <<t.url>> }
    /\ found_pages_set = Range(found_pages_list)
    /\ regurgited_pages \in { {}, { <<ELSEWHERE, "/p">> } }
    /\ caught_docs \in { {}, { <<BBC, "/sport", "/r", ".pdf">> } }
    /\ page \in { [status |-> CODES_OK, ctype |-> "text/html", body |-> b] :
                      b \in ExploreBodies }
    /\ wanted_ext = WANTED_EXT
    /\ do_dl = FALSE
    /\ do_journal = FALSE
    /\ do_wait = 0
    /\ do_random_wait = FALSE
    /\ single_page = FALSE
    /\ it = 0
    /\ slept = 0
    /\ fetched = <<>>
    /\ printed = <<>>
    /\ downloaded = <<>>
    /\ err = ""
    /\ url_lines = <<>>
    /\ line_it = 0
    /\ line_nb = 0
    /\ downloaded_files = 0
    /\ attempted = <<>>
    /\ tally = <<>>

\* explore_page(base_url, page_url, page_str, wanted_ext, 0, 0, ...) returns
ExplorePageCall ==
    /\ pc = "explore_page"
    /\ LET st == ExplorePage(Collections(found_pages_list, found_pages_set,
                                         regurgited_pages, caught_docs,
                                         printed, downloaded),
                             base_url, page_url, page.body, wanted_ext, do_dl, {})
       IN  /\ found_pages_list' = st.found_pages_list
           /\ found_pages_set' = st.found_pages_set
           /\ regurgited_pages' = st.regurgited_pages
           /\ caught_docs' = st.caught_docs
           /\ printed' = st.printed
           /\ downloaded' = st.downloaded
    /\ pc' = "returned"
    /\ UNCHANGED <<batch, argv, params, it, page_url, page, slept, fetched, err>>

ExploreSpec == ExploreInit /\ [][ExplorePageCall]_vars

Next ==
    \/ RunCmd
    \/ DocCrawler
    \/ ForNext
    \/ ForEnd
    \/ ControlledSleep
    \/ Get
    \/ GetRaises
    \/ Except
    \/ Explore
    \/ Skip
    \/ Close
    \/ DownloadFiles
    \/ LineNext
    \/ DownloadLine
    \/ DownloadLineRaises
    \/ LineExcept
    \/ LinesEnd

Spec == Init /\ [][Next]_vars

----------------------------------------------------------------------------
(* Properties *)

NoDuplicates(s) == \A i, j \in 1..Len(s) : i # j => s[i] # s[j]

\* the links of the page being classified, as the classifier sees them
PageLinks == { Resolve(page_url, page.body[i]) : i \in 1..Len(page.body) }

\* the page of this iteration has been classified and is still open
Classified == pc = "close" /\ IsTextPage(page)

\* the frontier entries the classifier appended: all but the seed
Enqueued == { found_pages_list[i] : i \in 2..Len(found_pages_list) }

\* the documents emitted, one way or the other
Reported == Range(printed) \cup Range(downloaded)

\* C1: at-most-once enqueue. In every state of a crawl no URL occurs twice in the
\* frontier list, and no URL has been fetched twice.
C1_AtMostOnceEnqueue ==
    NoDuplicates(found_pages_list) /\ NoDuplicates(fetched)

\* a second page has been classified whose body links to a page that was in the
\* frontier already
C1_Witness ==
    /\ Classified
    /\ it >= 2
    /\ found_pages_list[2] \in PageLinks
    /\ Len(fetched) >= 2

\* C2: document precedence. No URL that matches both the document pattern and the
\* same-site page test is ever appended to the frontier.
C2_DocumentPrecedence ==
    \A u \in Enqueued : ~(SuffixSearch(wanted_ext, u) /\ IsNextPage(base_url, u))

\* C3: idempotent classification. Once a page body has been classified, classifying
\* the same body again with the collections the first call returned appends nothing
\* to the frontier and emits no document.
C3_IdempotentClassification ==
    Classified =>
        LET again == ExplorePage(Collections(found_pages_list, found_pages_set,
                                             regurgited_pages, caught_docs,
                                             printed, downloaded),
                                 base_url, page_url, page.body, wanted_ext, do_dl, {})
        IN  /\ again.found_pages_list = found_pages_list
            /\ again.printed = printed
            /\ again.downloaded = downloaded

\* C4: no document is reported twice. No URL occurs twice among the printed
\* documents, nor twice among the downloaded ones.
C4_NoDocumentReportedTwice ==
    NoDuplicates(printed) /\ NoDuplicates(downloaded)

\* a page whose body names the same document twice has been classified, and the
\* document was reported
C4_Witness ==
    /\ Classified
    /\ Len(page.body) = 2
    /\ page.body[1] = page.body[2]
    /\ PageLinks \subseteq Range(printed)

\* C5: single-page mode. With single_page set nothing but the seed is ever fetched;
\* once the seed page has been classified the documents reported are exactly the
\* document links of that page, each once, whatever was appended to the frontier;
\* and the crawl ends there, with the seed as its only fetch.
C5_SinglePage ==
    single_page =>
        /\ fetched \in { <<>>, <<base_url>> }
        /\ Classified =>
              /\ Reported = { u \in PageLinks : SuffixSearch(wanted_ext, u) }
              /\ Reported = caught_docs
              /\ Len(printed) = Cardinality(caught_docs)
        /\ pc = "done" =>
              /\ fetched = <<base_url>>
              /\ Reported = caught_docs
              /\ Len(printed) = Cardinality(caught_docs)

\* a single-page crawl has ended whose seed page held a link to another page and a
\* document
C5_Witness ==
    /\ single_page
    /\ pc = "done"
    /\ Len(found_pages_list) >= 2
    /\ caught_docs # {}

\* C6: a fetch failure is not fatal. When requests.get raises, the loop goes on to
\* the next frontier entry.
C6_FetchFailureNotFatal ==
    [][pc = "except" => pc' = "for" /\ err' = ""]_vars

\* C7: a response that is not a successful text page is an expected branch, with
\* the journal on or off: nothing is classified, the collections are unchanged, no
\* error is raised and the crawl proceeds.
C7_SkippedResponseIsNoError ==
    [][(pc = "gate" /\ ~IsTextPage(page)) =>
          (pc' = "close" /\ err' = "" /\ UNCHANGED <<sets, outputs>>)]_vars

\* C8: binary exclusion. With the default document pattern no URL ending in .jpg or
\* .js is appended to the frontier or fetched as a page, and once a page has been
\* classified each of its same-site links ending in .jpg or .js is in
\* regurgited_pages and in neither of the other two sets.
C8_BinaryExclusion ==
    wanted_ext = WANTED_EXT =>
        /\ \A u \in Enqueued \cup (Range(fetched) \ {base_url}) :
              Last(u) \notin {".jpg", ".js"}
        /\ Classified =>
              \A u \in PageLinks :
                  (Contains(base_url, u) /\ Last(u) \in {".jpg", ".js"}) =>
                      /\ u \in regurgited_pages
                      /\ u \notin found_pages_set
                      /\ u \notin caught_docs

\* a page with a same-site .jpg link and a same-site .js link has been classified
\* under the default pattern
C8_Witness ==
    /\ wanted_ext = WANTED_EXT
    /\ Classified
    /\ \E u, v \in PageLinks :
          /\ Last(u) = ".jpg" /\ Contains(base_url, u)
          /\ Last(v) = ".js" /\ Contains(base_url, v)
          /\ {u, v} \subseteq regurgited_pages

\* C9: each caught document is emitted one way only: downloaded and not printed
\* with do_dl, printed and not downloaded without.
C9_ReportOrDownload ==
    \A u \in caught_docs :
        /\ do_dl => u \notin Range(printed)
        /\ ~do_dl => u \notin Range(downloaded)

\* C10: a crawl started by run_cmd with --single-page fetches the seed only.
C10_CommandLineSinglePage ==
    (\E i \in 1..Len(argv) : argv[i].opt = "--single-page") => Len(fetched) <= 1

\* C11: pacing precedes every fetch. With do_wait non-zero, whenever the page of an
\* iteration has been requested, controlled_sleep has slept in that iteration, the
\* first one included (slept is reset when the iteration begins).
C11_PacingPrecedesFetch ==
    (do_wait # 0 /\ it >= 1 /\ Len(fetched) = it) => slept >= 1

\* with waiting on, the second page of a crawl has been requested
C11_Witness ==
    /\ do_wait # 0
    /\ Len(fetched) = 2
    /\ it = 2
    /\ slept >= 1

\* the non-blank lines of a URL list, in order
RECURSIVE NonBlank(_)
NonBlank(ls) ==
    IF ls = <<>> THEN <<>>
    ELSE IF Head(ls) = <<>> THEN NonBlank(Tail(ls))
    ELSE <<Head(ls)>> \o NonBlank(Tail(ls))

\* C12: batch download tally. A batch that has attempted a download ends having
\* attempted every non-blank line of the list in order, and having printed
\* 'downloaded X / Y' with Y the number of non-blank lines and X the number of
\* downloads that succeeded.
C12_BatchTally ==
    (attempted # <<>> /\ pc \in {"done", "exit", "raised"}) =>
        /\ [i \in 1..Len(attempted) |-> attempted[i].url] = NonBlank(url_lines)
        /\ tally = << Cardinality({ i \in 1..Len(attempted) : attempted[i].ok }),
                      Len(NonBlank(url_lines)) >>

IsPrefix(s, t) == Len(s) <= Len(t) /\ SubSeq(t, 1, Len(s)) = s

\* C13: breadth-first order. Every step leaves the frontier as it was or longer at
\* its tail, and every fetch makes the fetched URLs the head of the frontier, in its
\* order: pages are fetched in the order they were appended.
C13_FifoOrder ==
    [][/\ IsPrefix(found_pages_list, found_pages_list')
       /\ fetched' # fetched => IsPrefix(fetched', found_pages_list')]_vars

\* three pages have been fetched, two of them appended by the classifier
C13_Witness ==
    /\ Len(fetched) = 3
    /\ fetched = found_pages_list

\* a crawl is over: doc_crawler has returned, or an exception has left it
CrawlEnded == found_pages_list # <<>> /\ pc \in {"done", "raised"}

\* C14: termination. A crawl in which no download raised ends with the frontier
\* exhausted (every enqueued URL has been popped) or, in single-page mode, after
\* its first iteration, whatever fetches failed and whatever responses were skipped.
C14_EndsByExhaustion ==
    (CrawlEnded /\ err # "download_file raised") =>
        \/ it = Len(found_pages_list)
        \/ single_page /\ it = 1

\* the URLs in one of the three sets
Known == found_pages_set \cup caught_docs \cup regurgited_pages

\* C15: relative resolution. When explore_page returns, every link of the body that
\* does not start with the recognized site has been classified as urljoin of the
\* page's URL and the link, and not as written when that differs; so the link "/a/b"
\* of the page https://example.com/x/y is classified as https://example.com/a/b.
C15_RelativeResolution ==
    pc = "returned" =>
        /\ \A i \in 1..Len(page.body) :
              LET link == page.body[i] IN
              ~RelLinkSearch(link) =>
                  /\ UrlJoin(page_url, link) \in Known
                  /\ UrlJoin(page_url, link) # link => link \notin Known
        /\ (page_url = <<EXAMPLE, "/x", "/y">> /\ <<"/a", "/b">> \in Range(page.body))
              => <<EXAMPLE, "/a", "/b">> \in Known

\* the page https://example.com/x/y with the link "/a/b" has been classified
C15_Witness ==
    /\ pc = "returned"
    /\ page_url = <<EXAMPLE, "/x", "/y">>
    /\ <<"/a", "/b">> \in Range(page.body)
    /\ <<EXAMPLE, "/a", "/b">> \in found_pages_set

\* C16: seen-set/frontier agreement. In every state the seen-pages set is exactly
\* the set of the URLs in the frontier list, visited or not, from [seed] and {seed} on.
C16_SeenSetIsFrontier == found_pages_set = Range(found_pages_list)

\* a page has been classified and the frontier holds the seed and two pages more
C16_Witness ==
    /\ Classified
    /\ Len(found_pages_list) >= 3
    /\ found_pages_set = Range(found_pages_list)

\* C17: exactly-one classification. In every state no URL is in more than one of
\* caught-documents, seen-pages and noise-seen.
C17_ExactlyOneClass ==
    /\ caught_docs \cap found_pages_set = {}
    /\ caught_docs \cap regurgited_pages = {}
    /\ found_pages_set \cap regurgited_pages = {}

\* C18: a body with no link. explore_page on an empty body leaves the frontier and
\* the three sets as they were passed in and reports nothing; with empty
\* collections it returns ([], set(), set(), set()).
C18_EmptyBodyChangesNothing ==
    [][(pc = "explore_page" /\ page.body = <<>>) =>
           /\ pc' = "returned"
           /\ UNCHANGED <<sets, outputs>>]_vars

\* explore_page has returned from an empty body, given collections that were not empty
C18_Witness ==
    /\ pc = "returned"
    /\ page.body = <<>>
    /\ found_pages_list # <<>>
    /\ regurgited_pages # {}
    /\ caught_docs # {}
    /\ printed = <<>>

\* the classification of the page about to be explored, were noise-seen R
WithNoise(R, failing) ==
    ExplorePage(Collections(found_pages_list, found_pages_set, R, caught_docs,
                            printed, downloaded),
                base_url, page_url, page.body, wanted_ext, do_dl, failing)

\* what a classification leaves for the traversal and the report
Traversal(st) ==
    <<st.found_pages_list, st.found_pages_set, st.caught_docs,
      st.printed, st.downloaded, st.raised>>

\* C19: noise-seen does not affect traversal. Whatever noise-seen holds when a page
\* is classified, the frontier, the seen pages, the documents caught and the
\* documents reported come out the same, so two crawls that differ in noise-seen
\* only fetch the same pages in the same order; and no Noise URL is in the frontier.
C19_NoiseDoesNotAffectTraversal ==
    /\ (pc = "gate" /\ IsTextPage(page)) =>
          \A R \in SUBSET PageLinks :
              \A failing \in (IF do_dl THEN Failures(page_url, page.body) ELSE { {} }) :
                  Traversal(WithNoise(R, failing))
                      = Traversal(WithNoise(regurgited_pages, failing))
    /\ regurgited_pages \cap Range(found_pages_list) = {}

\* a page is about to be classified that holds a link already in noise-seen
C19_Witness ==
    /\ pc = "gate"
    /\ IsTextPage(page)
    /\ PageLinks \cap regurgited_pages # {}
    /\ Len(fetched) >= 2

\* C20: scope confinement. In every state every URL of the frontier contains the
\* seed URL (base_url), and so does every URL fetched.
C20_ScopeConfinement ==
    \A u \in Range(found_pages_list) \cup Range(fetched) : Contains(base_url, u)

\* a page with a link outside the seed's scope has been classified, and the
\* frontier has grown
C20_Witness ==
    /\ Classified
    /\ \E u \in PageLinks : ~Contains(base_url, u) /\ ~BinExtSearch(u)
    /\ Len(found_pages_list) >= 2

====
